---- MODULE Spec2Model ----
(***************************************************************************)
(* Model of the analytics API of src/analyss.py: the loader load_data and  *)
(* the eight views built on it.  The collection db.analytics is fixed      *)
(* during a run (the program never writes to it); every request is one     *)
(* atomic step that loads the records and assembles the response.          *)
(*                                                                         *)
(* Values are tagged records [k, v]: None/NaN/NaT are one null value, a    *)
(* number is an integer, a name (userId, season, ...) is an opaque string, *)
(* and a string that reaches a conversion (ObjectId, pd.to_numeric, float) *)
(* is the sequence of its characters, so that the conversion is computed.  *)
(***************************************************************************)
EXTENDS Integers, Sequences, FiniteSets, TLC

VARIABLES db,    \* the documents of db.analytics, in cursor order
          req,   \* the market_id argument of the last request
          resp   \* the response of the last request

vars == <<db, req, resp>>

----------------------------------------------------------------------------
(* Values *)

NoneV == [k |-> "null", v |-> 0]
Absent == [k |-> "absent", v |-> 0]
Num(n) == [k |-> "num", v |-> n]
Str(s) == [k |-> "str", v |-> s]
Txt(cs) == [k |-> "txt", v |-> cs]
Date(d, h) == [k |-> "date", v |-> <<d, h>>]
List(es) == [k |-> "list", v |-> es]
Dict(d) == [k |-> "dict", v |-> d]
Oid(t) == [k |-> "oid", v |-> t]

IsNull(x) == x.k = "null"

EmptyFcn == [x \in {} |-> x]

\* one key of a document or dict literal; an absent value gives no key
Opt(f, val) == IF val.k = "absent" THEN EmptyFcn ELSE (f :> val)

RECURSIVE SetSum(_, _)
\* sum of f[x] over the finite set S
SetSum(S, f) ==
    IF S = {} THEN 0
    ELSE LET x == CHOOSE y \in S : TRUE IN f[x] + SetSum(S \ {x}, f)

\* the sequences over S of length at most n
SeqsUpTo(S, n) == UNION {[1..m -> S] : m \in 0..n}

\* the orderings of the finite set S, as sequences without repetition
Perms(S) == {p \in [1..Cardinality(S) -> S] : \A x \in S : \E i \in DOMAIN p : p[i] = x}

----------------------------------------------------------------------------
(* Parsing of strings *)

DigitVal == ("0" :> 0) @@ ("1" :> 1) @@ ("2" :> 2) @@ ("3" :> 3) @@ ("4" :> 4) @@
            ("5" :> 5) @@ ("6" :> 6) @@ ("7" :> 7) @@ ("8" :> 8) @@ ("9" :> 9)

HexVal == DigitVal @@
          ("a" :> 10) @@ ("b" :> 11) @@ ("c" :> 12) @@ ("d" :> 13) @@ ("e" :> 14) @@ ("f" :> 15) @@
          ("A" :> 10) @@ ("B" :> 11) @@ ("C" :> 12) @@ ("D" :> 13) @@ ("E" :> 14) @@ ("F" :> 15)

\* a decimal literal: one or more digits
IsDecimal(cs) == Len(cs) > 0 /\ \A i \in DOMAIN cs : cs[i] \in DOMAIN DigitVal

RECURSIVE DecimalValue(_)
DecimalValue(cs) ==
    IF cs = <<>> THEN 0
    ELSE 10 * DecimalValue(SubSeq(cs, 1, Len(cs) - 1)) + DigitVal[cs[Len(cs)]]

\* an ObjectId is 12 bytes, written as two hexadecimal digits each
OidLen == 2 * 12

ObjectIdValid(cs) == Len(cs) = OidLen /\ \A i \in DOMAIN cs : cs[i] \in DOMAIN HexVal

RECURSIVE HexValue(_)
HexValue(cs) ==
    IF cs = <<>> THEN 0
    ELSE 16 * HexValue(SubSeq(cs, 1, Len(cs) - 1)) + HexVal[cs[Len(cs)]]

\* bytes.fromhex: the 12 bytes the text denotes, kept as four words of three
\* bytes each
ObjectId(cs) == Oid([w \in 1..4 |-> HexValue(SubSeq(cs, 6 * w - 5, 6 * w))])

\* Python truth of the market_id argument: None and "" are false
Truthy(market_id) == market_id.k = "txt" /\ Len(market_id.v) > 0

\* market_id or 'all'
EchoMarket(market_id) == IF Truthy(market_id) THEN market_id ELSE Str("all")

----------------------------------------------------------------------------
(* load_data *)

Projection == {"userId", "customerAge", "customerGender", "purchaseAmount",
               "location", "season", "categories", "orderDate"}

NoError == "None"
InvalidMarket == "Invalid market ID format"
NoData == "No data found"
ParseError == "Unable to parse string"
DateError == "Unknown datetime string format"

\* db.analytics.find(query, projection): query is <<>> or <<oid>>
Find(query) ==
    LET matches(doc) == query = <<>> \/
                        ("marketId" \in DOMAIN doc /\ doc["marketId"] = query[1])
        found == SelectSeq(db, matches)
    IN [i \in DOMAIN found |->
           [f \in (DOMAIN found[i]) \cap Projection |-> found[i][f]]]

\* pd.DataFrame(list(cursor)): the columns are the keys that occur, a key
\* missing from a document is NaN in its row
DataFrame(docs) ==
    LET cols == UNION {DOMAIN docs[i] : i \in DOMAIN docs}
    IN [rows |-> [i \in DOMAIN docs |->
                    [f \in cols |-> IF f \in DOMAIN docs[i] THEN docs[i][f] ELSE NoneV]],
        cols |-> cols]

EmptyFrame == [rows |-> <<>>, cols |-> {}]

\* df.empty: no row or no column
DfEmpty(df) == Len(df.rows) = 0 \/ df.cols = {}

\* pd.to_numeric of one cell (errors='raise'): can it be converted
NumericOk(x) == x.k \in {"num", "null"} \/ (x.k = "txt" /\ IsDecimal(x.v))

ToNumeric(x) == IF x.k = "txt" THEN Num(DecimalValue(x.v)) ELSE x

\* pd.to_datetime of one cell
DatetimeOk(x) == x.k \in {"date", "null"}

\* the conversion of a column raises on the first cell it cannot convert;
\* a column that is not there is not converted
NumericColumnOk(df, f) == f \notin df.cols \/ \A i \in DOMAIN df.rows : NumericOk(df.rows[i][f])

DatetimeColumnOk(df, f) == f \notin df.cols \/ \A i \in DOMAIN df.rows : DatetimeOk(df.rows[i][f])

ConvertTypes(df) ==
    [rows |-> [i \in DOMAIN df.rows |->
                [f \in df.cols |->
                    IF f \in {"purchaseAmount", "customerAge"}
                    THEN ToNumeric(df.rows[i][f]) ELSE df.rows[i][f]]],
     cols |-> df.cols]

LoadData(market_id) ==
    IF Truthy(market_id) /\ ~ObjectIdValid(market_id.v)
    THEN [df |-> EmptyFrame, error |-> InvalidMarket]
    ELSE LET query == IF Truthy(market_id) THEN <<ObjectId(market_id.v)>> ELSE <<>>
             df == DataFrame(Find(query))
         IN  IF DfEmpty(df) THEN [df |-> df, error |-> NoError]
             ELSE IF ~DatetimeColumnOk(df, "orderDate")
                  THEN [df |-> EmptyFrame, error |-> DateError]
             ELSE IF ~NumericColumnOk(df, "purchaseAmount")
                       \/ ~NumericColumnOk(df, "customerAge")
                  THEN [df |-> EmptyFrame, error |-> ParseError]
             ELSE [df |-> ConvertTypes(df), error |-> NoError]

----------------------------------------------------------------------------
(* Responses and column primitives *)

NoResp == [view |-> "none", status |-> 0, body |-> EmptyFcn]

Ok(view, body) == [view |-> view, status |-> 200, body |-> body]

\* jsonify({"error": ...}), code
Failure(view, code, msg) == [view |-> view, status |-> code, body |-> [error |-> msg]]

\* the df.empty branch with the loader's error dropped
NotFoundAsNoData(view, error) == Failure(view, 404, NoData)

\* the df.empty branch of every view: error or "No data found"
NotFound(view, error) == Failure(view, 404, IF error = NoError THEN NoData ELSE error)

KeyError(view, f) == Failure(view, 500, "'" \o f \o "'")

\* the indices of the rows whose cell f is not null
NonNull(rows, f) == {i \in DOMAIN rows : ~IsNull(rows[i][f])}

\* Series.sum(): nulls skipped, 0 when nothing is left
ColSum(rows, I, f) == SetSum(I \cap NonNull(rows, f), [i \in DOMAIN rows |-> rows[i][f].v])

\* a mean is kept as the fraction num/den; den = 0 is NaN
Ratio(n, d) == [num |-> n, den |-> d]

\* Series.mean(): over the non-null cells
ColMean(rows, f) == Ratio(ColSum(rows, DOMAIN rows, f), Cardinality(NonNull(rows, f)))

\* Series.nunique(): the distinct non-null values
NUnique(rows, f) == Cardinality({rows[i][f] : i \in NonNull(rows, f)})

\* the group keys of df.groupby(f) and of value_counts(): nulls are dropped
Keys(rows, f) == {rows[i][f].v : i \in NonNull(rows, f)}

Group(rows, f, key) == {i \in NonNull(rows, f) : rows[i][f].v = key}

\* df.groupby(f)[g].sum().to_dict()
GroupSum(rows, f, g) == [key \in Keys(rows, f) |-> ColSum(rows, Group(rows, f, key), g)]

\* df[f].value_counts().to_dict()
ValueCounts(rows, f) == [key \in Keys(rows, f) |-> Cardinality(Group(rows, f, key))]

----------------------------------------------------------------------------
(* /api/stats *)

\* last_updated, the wall clock of the request, is left out of the body
Stats(market_id) ==
    LET ld == LoadData(market_id)
        rows == ld.df.rows
    IN  IF DfEmpty(ld.df) THEN NotFound("stats", ld.error)
        ELSE IF "purchaseAmount" \notin ld.df.cols THEN KeyError("stats", "purchaseAmount")
        ELSE IF "userId" \notin ld.df.cols THEN KeyError("stats", "userId")
        ELSE Ok("stats",
                [total_sales |-> ColSum(rows, DOMAIN rows, "purchaseAmount"),
                 avg_purchase |-> ColMean(rows, "purchaseAmount"),
                 total_orders |-> Len(rows),
                 unique_customers |-> NUnique(rows, "userId"),
                 market_id |-> EchoMarket(market_id)])

get_stats(market_id) ==
    /\ req' = market_id
    /\ resp' = Stats(market_id)
    /\ UNCHANGED db

----------------------------------------------------------------------------
(* Category expansion, shared by /api/categories and the category chart *)

RECURSIVE Flatten(_)
Flatten(ss) == IF ss = <<>> THEN <<>> ELSE Head(ss) \o Flatten(Tail(ss))

IsDict(c) == c.k = "dict"

\* the dict entries of the list cells of the categories column, in row order
DictEntries(rows) ==
    Flatten([i \in DOMAIN rows |->
                IF rows[i]["categories"].k = "list"
                THEN SelectSeq(rows[i]["categories"].v, IsDict)
                ELSE <<>>])

\* cat.get(key, default)
DictGet(c, key, default) == IF key \in DOMAIN c.v THEN c.v[key] ELSE default

\* float(x): a number, or a string holding a decimal literal
FloatOk(x) == x.k = "num" \/ (x.k = "txt" /\ IsDecimal(x.v))

Float(x) == IF x.k = "txt" THEN Num(DecimalValue(x.v)) ELSE x

FloatError(x) == IF x.k = "txt" THEN "could not convert string to float"
                 ELSE "float() argument must be a string or a real number"

Amount(c) == DictGet(c, "amount", Num(0))

\* the loop that fills category_data: the rows built, or the exception
\* float() raises on the first entry it cannot convert
CategoryData(rows) ==
    LET entries == DictEntries(rows)
        bad == {i \in DOMAIN entries : ~FloatOk(Amount(entries[i]))}
    IN  IF bad # {}
        THEN [error |-> FloatError(Amount(entries[CHOOSE i \in bad : \A j \in bad : i <= j])),
              data |-> <<>>]
        ELSE [error |-> NoError,
              data |-> [i \in DOMAIN entries |->
                          [category |-> DictGet(entries[i], "category", Str("Unknown")),
                           amount |-> Float(Amount(entries[i]))]]]

\* df.groupby(f)[g].mean().to_dict()
GroupMean(rows, f, g) ==
    [key \in Keys(rows, f) |->
        Ratio(ColSum(rows, Group(rows, f, key), g),
              Cardinality(Group(rows, f, key) \cap NonNull(rows, g)))]

----------------------------------------------------------------------------
(* /api/categories *)

Categories(market_id) ==
    LET ld == LoadData(market_id)
        cd == CategoryData(ld.df.rows)
        empty == [distribution |-> EmptyFcn, sales |-> EmptyFcn,
                  average_purchase |-> EmptyFcn, market_id |-> EchoMarket(market_id)]
    IN  IF DfEmpty(ld.df) THEN NotFound("categories", ld.error)
        ELSE IF "categories" \notin ld.df.cols THEN Ok("categories", empty)
        ELSE IF cd.error # NoError THEN Failure("categories", 500, cd.error)
        ELSE IF cd.data = <<>> THEN Ok("categories", empty)
        ELSE Ok("categories",
                [distribution |-> ValueCounts(cd.data, "category"),
                 sales |-> GroupSum(cd.data, "category", "amount"),
                 average_purchase |-> GroupMean(cd.data, "category", "amount"),
                 market_id |-> EchoMarket(market_id)])

get_categories(market_id) ==
    /\ req' = market_id
    /\ resp' = Categories(market_id)
    /\ UNCHANGED db

----------------------------------------------------------------------------
(* Chart shapes *)

Chart(view, labels, values, title, market_id) ==
    Ok(view, [labels |-> labels, values |-> values, title |-> title,
              market_id |-> EchoMarket(market_id)])

\* sort_values(ascending=False) of a frame of (key, sum) rows: pandas sorts
\* with the default kind 'quicksort', which is not stable, so rows of equal
\* value may come out in any order
AscOrders(sums) ==
    {p \in Perms(DOMAIN sums) :
        \A i, j \in DOMAIN p : i < j => sums[p[i]] <= sums[p[j]]}

DescOrders(sums) ==
    {p \in Perms(DOMAIN sums) :
        \A i, j \in DOMAIN p : i < j => sums[p[i]] >= sums[p[j]]}

AttributeError == "'list' object has no attribute 'empty'"

----------------------------------------------------------------------------
(* /api/charts/category_sales: the set of responses the request may get *)

CategorySalesChart(market_id) ==
    LET ld == LoadData(market_id)
        cd == CategoryData(ld.df.rows)
        sums == GroupSum(cd.data, "category", "amount")
        view == "category_sales"
    IN  IF DfEmpty(ld.df) THEN {NotFound(view, ld.error)}
        \* category_sales is still the list [] when chart_data reads .empty
        ELSE IF "categories" \notin ld.df.cols THEN {Failure(view, 500, AttributeError)}
        ELSE IF cd.error # NoError THEN {Failure(view, 500, cd.error)}
        ELSE IF cd.data = <<>> THEN {Failure(view, 500, AttributeError)}
        ELSE {Chart(view, p, [i \in DOMAIN p |-> sums[p[i]]], "Sales by Category", market_id) :
                p \in DescOrders(sums)}

get_category_sales_chart(market_id) ==
    /\ req' = market_id
    /\ resp' \in CategorySalesChart(market_id)
    /\ UNCHANGED db

----------------------------------------------------------------------------
(* /api/locations: the set of responses the request may get *)

ColumnNotFound(f) == "'Column not found: " \o f \o "'"

IndexError == "index 0 is out of bounds for axis 0 with size 0"

\* the category names gathered for one location (no amount is read here)
LocationCategories(rows, location) ==
    LET own == SelectSeq(rows, LAMBDA r : r["location"] = Str(location))
        entries == DictEntries(own)
    IN  [i \in DOMAIN entries |->
            [category |-> DictGet(entries[i], "category", Str("Unknown"))]]

\* pd.Series(categories).value_counts().index[0]: a most frequent name;
\* value_counts sorts by count with the unstable default sort
TopCategories(cats) ==
    LET counts == ValueCounts(cats, "category")
    IN  {key \in DOMAIN counts : \A other \in DOMAIN counts : counts[key] >= counts[other]}

Locations(market_id) ==
    LET ld == LoadData(market_id)
        rows == ld.df.rows
        view == "locations"
        empty == [distribution |-> EmptyFcn, sales |-> EmptyFcn,
                  top_categories |-> EmptyFcn, market_id |-> EchoMarket(market_id)]
        withCats == IF "categories" \in ld.df.cols
                    THEN {l \in Keys(rows, "location") : LocationCategories(rows, l) # <<>>}
                    ELSE {}
    IN  IF DfEmpty(ld.df) THEN {NotFound(view, ld.error)}
        ELSE IF "location" \notin ld.df.cols THEN {Ok(view, empty)}
        ELSE IF "purchaseAmount" \notin ld.df.cols
             THEN {Failure(view, 500, ColumnNotFound("purchaseAmount"))}
        ELSE IF \E l \in withCats : TopCategories(LocationCategories(rows, l)) = {}
             THEN {Failure(view, 500, IndexError)}
        ELSE {Ok(view, [distribution |-> ValueCounts(rows, "location"),
                        sales |-> GroupSum(rows, "location", "purchaseAmount"),
                        top_categories |-> top,
                        market_id |-> EchoMarket(market_id)]) :
                top \in {t \in [withCats -> UNION {TopCategories(LocationCategories(rows, l)) : l \in withCats}] :
                            \A l \in withCats : t[l] \in TopCategories(LocationCategories(rows, l))}}

get_locations(market_id) ==
    /\ req' = market_id
    /\ resp' \in Locations(market_id)
    /\ UNCHANGED db

----------------------------------------------------------------------------
(* /api/time_analysis *)

\* str() of the calendar date of a timestamp of January 2024: the time of
\* day is dropped
DateStr(x) == "2024-01-" \o (IF x.v[1] < 10 THEN "0" ELSE "") \o ToString(x.v[1])

\* df['orderDate'].dt.date.astype(str): a missing date becomes the text
\* "NaT" (natAsText, pandas 2) or stays missing (pandas 3)
DateKeys(rows, natAsText) ==
    [i \in DOMAIN rows |->
        [date |-> IF ~IsNull(rows[i]["orderDate"]) THEN Str(DateStr(rows[i]["orderDate"]))
                  ELSE IF natAsText THEN Str("NaT") ELSE NoneV,
         purchaseAmount |-> rows[i]["purchaseAmount"]]]

TimeAnalysis(market_id) ==
    LET ld == LoadData(market_id)
        rows == ld.df.rows
        view == "time_analysis"
        seasonal == "season" \in ld.df.cols
        daily == "orderDate" \in ld.df.cols /\ NonNull(rows, "orderDate") # {}
    IN  IF DfEmpty(ld.df) THEN {NotFound(view, ld.error)}
        ELSE IF (seasonal \/ daily) /\ "purchaseAmount" \notin ld.df.cols
             THEN {Failure(view, 500, ColumnNotFound("purchaseAmount"))}
        ELSE {Ok(view, [season_sales |-> IF seasonal
                                         THEN GroupSum(rows, "season", "purchaseAmount")
                                         ELSE EmptyFcn,
                        daily_sales |-> IF daily
                                        THEN GroupSum(DateKeys(rows, natAsText), "date", "purchaseAmount")
                                        ELSE EmptyFcn,
                        market_id |-> EchoMarket(market_id)]) :
                natAsText \in BOOLEAN}

get_time_analysis(market_id) ==
    /\ req' = market_id
    /\ resp' \in TimeAnalysis(market_id)
    /\ UNCHANGED db

----------------------------------------------------------------------------
(* /api/demographics *)

bins == <<0, 25, 35, 45, 55, 100>>
labels == <<"<25", "25-34", "35-44", "45-54", "55+">>

\* pd.cut with right=True: the intervals (bins[i], bins[i+1]]
CutRightClosed(age) ==
    IF \E i \in DOMAIN labels : bins[i] < age.v /\ age.v <= bins[i + 1]
    THEN Str(labels[CHOOSE i \in DOMAIN labels : bins[i] < age.v /\ age.v <= bins[i + 1]])
    ELSE NoneV

\* pd.cut(age, bins, labels, right=False): the label of the interval
\* [bins[i], bins[i+1]) that holds the age, null when none does
Cut(age) ==
    IF \E i \in DOMAIN labels : bins[i] <= age.v /\ age.v < bins[i + 1]
    THEN Str(labels[CHOOSE i \in DOMAIN labels : bins[i] <= age.v /\ age.v < bins[i + 1]])
    ELSE NoneV

\* the column df['Age Group']
AgeGroup(rows) ==
    [i \in DOMAIN rows |->
        [age_group |-> IF IsNull(rows[i]["customerAge"]) THEN NoneV
                     ELSE Cut(rows[i]["customerAge"])]]

\* value_counts() of a categorical column: every category, also with count 0
AgeGroupCounts(rows) ==
    [l \in {labels[i] : i \in DOMAIN labels} |->
        Cardinality({i \in DOMAIN rows : AgeGroup(rows)[i].age_group = Str(l)})]

ColMin(rows, f) == CHOOSE m \in Keys(rows, f) : \A other \in Keys(rows, f) : m <= other
ColMax(rows, f) == CHOOSE m \in Keys(rows, f) : \A other \in Keys(rows, f) : m >= other

AgeStats(df) ==
    IF "customerAge" \notin df.cols \/ NonNull(df.rows, "customerAge") = {} THEN EmptyFcn
    ELSE [average |-> ColMean(df.rows, "customerAge"),
          min |-> ColMin(df.rows, "customerAge"),
          max |-> ColMax(df.rows, "customerAge"),
          groups |-> AgeGroupCounts(df.rows)]

Demographics(market_id) ==
    LET ld == LoadData(market_id)
        rows == ld.df.rows
        view == "demographics"
        gender == "customerGender" \in ld.df.cols
    IN  IF DfEmpty(ld.df) THEN NotFound(view, ld.error)
        ELSE IF gender /\ "purchaseAmount" \notin ld.df.cols
             THEN Failure(view, 500, ColumnNotFound("purchaseAmount"))
        ELSE Ok(view, [gender_distribution |-> IF gender THEN ValueCounts(rows, "customerGender")
                                               ELSE EmptyFcn,
                       gender_sales |-> IF gender
                                        THEN GroupSum(rows, "customerGender", "purchaseAmount")
                                        ELSE EmptyFcn,
                       age_stats |-> AgeStats(ld.df),
                       market_id |-> EchoMarket(market_id)])

get_demographics(market_id) ==
    /\ req' = market_id
    /\ resp' = Demographics(market_id)
    /\ UNCHANGED db

----------------------------------------------------------------------------
(* /api/charts/location_sales *)

LocationSalesChart(market_id) ==
    LET ld == LoadData(market_id)
        sums == GroupSum(ld.df.rows, "location", "purchaseAmount")
        view == "location_sales"
    IN  IF DfEmpty(ld.df) THEN {NotFound(view, ld.error)}
        ELSE IF "location" \notin ld.df.cols
             THEN {Chart(view, <<>>, <<>>, "Sales by Location", market_id)}
        ELSE IF "purchaseAmount" \notin ld.df.cols
             THEN {Failure(view, 500, ColumnNotFound("purchaseAmount"))}
        ELSE {Chart(view, p, [i \in DOMAIN p |-> sums[p[i]]], "Sales by Location", market_id) :
                p \in DescOrders(sums)}

get_location_sales_chart(market_id) ==
    /\ req' = market_id
    /\ resp' \in LocationSalesChart(market_id)
    /\ UNCHANGED db

----------------------------------------------------------------------------
(* /api/charts/gender_distribution *)

GenderDistributionChart(market_id) ==
    LET ld == LoadData(market_id)
        counts == ValueCounts(ld.df.rows, "customerGender")
        view == "gender_distribution"
    IN  IF DfEmpty(ld.df) THEN {NotFound(view, ld.error)}
        ELSE IF "customerGender" \notin ld.df.cols
             THEN {Chart(view, <<>>, <<>>, "Gender Distribution", market_id)}
        ELSE {Chart(view, p, [i \in DOMAIN p |-> counts[p[i]]], "Gender Distribution", market_id) :
                p \in DescOrders(counts)}

get_gender_distribution_chart(market_id) ==
    /\ req' = market_id
    /\ resp' \in GenderDistributionChart(market_id)
    /\ UNCHANGED db

----------------------------------------------------------------------------
(* /api/charts/seasonal_sales *)

seasons_order == <<"Winter", "Spring", "Summer", "Fall">>

\* the code of a season in pd.Categorical(..., categories=seasons_order):
\* its position, or past the end for a value that is no category (NaN,
\* which sort_values puts last)
SeasonCode(s) ==
    IF \E i \in DOMAIN seasons_order : seasons_order[i] = s
    THEN CHOOSE i \in DOMAIN seasons_order : seasons_order[i] = s
    ELSE Len(seasons_order) + 1

\* sort_values('season') of the grouped frame
SeasonOrders(sums) ==
    {p \in Perms(DOMAIN sums) :
        \A i, j \in DOMAIN p : i < j => SeasonCode(p[i]) <= SeasonCode(p[j])}

SeasonLabel(s) == IF SeasonCode(s) <= Len(seasons_order) THEN Str(s) ELSE NoneV

SeasonalSalesChart(market_id) ==
    LET ld == LoadData(market_id)
        sums == GroupSum(ld.df.rows, "season", "purchaseAmount")
        view == "seasonal_sales"
    IN  IF DfEmpty(ld.df) THEN {NotFound(view, ld.error)}
        ELSE IF "season" \notin ld.df.cols
             THEN {Chart(view, <<>>, <<>>, "Sales by Season", market_id)}
        ELSE IF "purchaseAmount" \notin ld.df.cols
             THEN {Failure(view, 500, ColumnNotFound("purchaseAmount"))}
        ELSE {Chart(view, [i \in DOMAIN p |-> SeasonLabel(p[i])], [i \in DOMAIN p |-> sums[p[i]]],
                    "Sales by Season", market_id) :
                p \in SeasonOrders(sums)}

get_seasonal_sales_chart(market_id) ==
    /\ req' = market_id
    /\ resp' \in SeasonalSalesChart(market_id)
    /\ UNCHANGED db

----------------------------------------------------------------------------
(* The requests and the collections the model is run on *)

MaxDocs == 2      \* documents in the collection
MaxEntries == 2   \* entries in one categories list

MarketA == [i \in 1..OidLen |-> "a"]
MarketB == [i \in 1..OidLen |-> "b"]

\* no argument, the empty string, two well-formed identifiers, and two
\* malformed ones (too short; of the right length but not hexadecimal)
MarketIds == {NoneV, Txt(<<>>), Txt(MarketA), Txt(MarketB),
              Txt(<<"x", "y", "z">>), Txt([i \in 1..OidLen |-> "z"])}

Doc(market, fields) == ("marketId" :> ObjectId(market)) @@ fields

StatsDocs ==
    {Doc(MarketA, Opt("userId", u) @@ Opt("purchaseAmount", a)) :
        u \in {Absent, Str("u1"), Str("u2")},
        a \in {Absent, NoneV, Num(10), Num(20), Txt(<<"5">>), Txt(<<"x">>)}}
    \cup {Doc(MarketB, Opt("userId", Str("u1")) @@ Opt("purchaseAmount", Num(10)))}

SeasonDocs ==
    {Doc(MarketA, Opt("season", s) @@ Opt("purchaseAmount", a)) :
        s \in {Absent, NoneV} \cup {Str(seasons_order[i]) : i \in DOMAIN seasons_order},
        a \in {Absent, NoneV, Num(10)}}

DateDocs ==
    {Doc(MarketA, Opt("orderDate", d) @@ Opt("purchaseAmount", a)) :
        d \in {Absent, NoneV, Date(1, 0), Date(1, 9), Date(2, 0), Txt(<<"x">>)},
        a \in {NoneV, Num(10), Num(20)}}

Entry(category, amount) == Dict(Opt("category", category) @@ Opt("amount", amount))

PlaceDocs ==
    {Doc(MarketA, Opt("customerGender", g) @@ Opt("location", l) @@ Opt("categories", c)
                  @@ Opt("purchaseAmount", Num(10))) :
        g \in {Absent, Str("F"), Str("M")},
        l \in {Absent, Str("Paris"), Str("Lyon")},
        c \in {Absent, List(<<Entry(Str("Food"), Num(1))>>), List(<<Entry(NoneV, Num(1))>>)}}

\* entries of a categories list: well-formed ones, one that is no dict, and
\* ones whose name or amount is missing, null or not a number
CatEntries ==
    {Str("Food"),
     Entry(Str("Food"), Num(1)), Entry(Str("Toys"), Num(1)), Entry(Str("Toys"), Num(2)),
     Entry(Absent, Num(1)), Entry(Str("Food"), Absent), Entry(Str("Food"), Txt(<<"2">>)),
     Entry(Str("Food"), NoneV), Entry(Str("Toys"), Txt(<<"x">>)), Entry(NoneV, Num(1))}

CatDocs ==
    {Doc(MarketA, Opt("userId", Str("u1")) @@ Opt("categories", c)) :
        c \in {Absent, NoneV, Str("Food")} \cup {List(es) : es \in SeqsUpTo(CatEntries, MaxEntries)}}

SmallCatDocs ==
    {Doc(MarketA, Opt("userId", Str("u1")) @@ Opt("categories", c)) :
        c \in {Absent, List(<<Str("Food")>>), List(<<Entry(Str("Food"), Num(1))>>),
               List(<<Entry(Str("Toys"), Num(1))>>)}}

\* the ages around every edge of bins, and on both sides of its range
Ages == {-1, 0, 24, 25, 34, 35, 44, 45, 54, 55, 99, 100}

AgeDocs ==
    {Doc(MarketA, Opt("customerAge", a) @@ Opt("purchaseAmount", Num(10))) :
        a \in {Absent, NoneV, Txt(<<"3", "0">>), Txt(<<"x">>)} \cup {Num(n) : n \in Ages}}

FullDoc(market) ==
    Doc(market, Opt("userId", Str("u1")) @@ Opt("customerAge", Num(30))
                @@ Opt("customerGender", Str("F")) @@ Opt("purchaseAmount", Num(10))
                @@ Opt("location", Str("Paris")) @@ Opt("season", Str("Winter"))
                @@ Opt("categories", List(<<Entry(Str("Food"), Num(10))>>))
                @@ Opt("orderDate", Date(1, 0)))

MarketDocs == {FullDoc(MarketA), FullDoc(MarketB), Doc(MarketA, EmptyFcn),
               Doc(MarketA, Opt("purchaseAmount", Txt(<<"x">>)))}

Start(dbs) == db \in dbs /\ req = NoneV /\ resp = NoResp

Requests(ids) ==
    \E market_id \in ids :
        \/ get_stats(market_id)
        \/ get_categories(market_id)
        \/ get_locations(market_id)
        \/ get_time_analysis(market_id)
        \/ get_demographics(market_id)
        \/ get_category_sales_chart(market_id)
        \/ get_location_sales_chart(market_id)
        \/ get_gender_distribution_chart(market_id)
        \/ get_seasonal_sales_chart(market_id)

Init == Start(SeqsUpTo(StatsDocs, MaxDocs) \cup SeqsUpTo(SeasonDocs, MaxDocs)
              \cup SeqsUpTo(DateDocs, MaxDocs) \cup SeqsUpTo(PlaceDocs, MaxDocs))

Next == Requests({NoneV, Txt(MarketA)})

Spec == Init /\ [][Next]_vars

\* the views over the category lists
InitCat == Start(SeqsUpTo(CatDocs, 1) \cup SeqsUpTo(SmallCatDocs, MaxDocs))

NextCat ==
    \E market_id \in {NoneV, Txt(MarketA)} :
        \/ get_categories(market_id)
        \/ get_category_sales_chart(market_id)

SpecCat == InitCat /\ [][NextCat]_vars

\* the demographics view over the ages
InitAge == Start(SeqsUpTo(AgeDocs, MaxDocs))

NextAge == \E market_id \in {NoneV, Txt(MarketA)} : get_demographics(market_id)

SpecAge == InitAge /\ [][NextAge]_vars

\* every view under every market_id
InitMarket == Start(SeqsUpTo(MarketDocs, MaxDocs))

NextMarket == Requests(MarketIds)

SpecMarket == InitMarket /\ [][NextMarket]_vars

----------------------------------------------------------------------------
(* What the claims say, stated on the record set the request loaded *)

Loaded == LoadData(req).df

Records == Loaded.rows

\* a field of a record: null when the record does not carry it
Field(r, f) == IF f \in DOMAIN r THEN r[f] ELSE NoneV

Having(f) == {i \in DOMAIN Records : ~IsNull(Field(Records[i], f))}

\* the sum of the non-null values of field f over the records I
TotalOf(I, f) == SetSum(I \cap Having(f), [i \in DOMAIN Records |-> Field(Records[i], f).v])

\* the records whose field f holds the name s
Named(f, s) == {i \in DOMAIN Records : Field(Records[i], f) = Str(s)}

\* equality of two means
SameMean(a, b) == (a.den = 0) = (b.den = 0) /\ a.num * b.den = b.num * a.den

Answered(view) == resp.view = view /\ ~DfEmpty(Loaded)

\* C1: for every non-empty record set get_stats returns total_sales = the
\* sum of the non-null purchaseAmount values, avg_purchase = their mean,
\* total_orders = the number of all records and unique_customers = the
\* number of distinct userId values.
C1_StatsOfRecordSet ==
    Answered("stats") =>
        /\ resp.status = 200
        /\ resp.body.total_sales = TotalOf(DOMAIN Records, "purchaseAmount")
        /\ SameMean(resp.body.avg_purchase,
                    Ratio(TotalOf(DOMAIN Records, "purchaseAmount"),
                          Cardinality(Having("purchaseAmount"))))
        /\ resp.body.total_orders = Len(Records)
        /\ resp.body.unique_customers =
               Cardinality({Field(Records[i], "userId") : i \in Having("userId")})

\* C4: for every non-empty record set the labels of the seasonal-sales chart
\* are the seasons present in the data, each once, in the order Winter,
\* Spring, Summer, Fall, absent seasons omitted, and values[i] is the
\* purchaseAmount sum of labels[i].
C4_SeasonalChartOrder ==
    LET present(s) == Named("season", s) # {}
        expected == SelectSeq(<<"Winter", "Spring", "Summer", "Fall">>, present)
    IN  Answered("seasonal_sales") =>
            /\ resp.status = 200
            /\ resp.body.labels = [i \in DOMAIN expected |-> Str(expected[i])]
            /\ resp.body.values =
                   [i \in DOMAIN expected |-> TotalOf(Named("season", expected[i]), "purchaseAmount")]

\* a value pd.to_numeric cannot parse: a string that is no decimal literal
Unparsable(x) == x.k = "txt" /\ ~IsDecimal(x.v)

\* C6: when a record has a purchaseAmount or customerAge that cannot be
\* parsed as a number, load_data sets only that field of that record to
\* null and still returns every record, with no error.
C6_BadFieldBecomesNull ==
    LET found == Find(<<>>)
        ld == LoadData(req)
        numeric == {"purchaseAmount", "customerAge"}
    IN  (/\ resp.view # "none"
         /\ req = NoneV
         /\ \E i \in DOMAIN found : \E f \in numeric : Unparsable(Field(found[i], f)))
        => /\ ld.error = NoError
           /\ Len(ld.df.rows) = Len(found)
           /\ \A i \in DOMAIN found : \A f \in numeric \cap DOMAIN found[i] :
                 IF Unparsable(found[i][f]) THEN IsNull(ld.df.rows[i][f])
                 ELSE ~IsNull(found[i][f]) => ~IsNull(ld.df.rows[i][f])

\* the calendar dates of the records that have an orderDate
DatesPresent == {DateStr(Field(Records[i], "orderDate")) : i \in Having("orderDate")}

OnDate(d) == {i \in Having("orderDate") : DateStr(Field(Records[i], "orderDate")) = d}

SeasonsPresent == {Field(Records[i], "season").v : i \in Having("season")}

\* C10: when at least one record has an orderDate, daily_sales of
\* get_time_analysis has exactly one key per calendar date of the records
\* with an orderDate, mapped to their purchaseAmount sum; records without
\* orderDate give no key and no amount to daily_sales but count in
\* season_sales.
C10_DailySalesKeys ==
    (Answered("time_analysis") /\ Having("orderDate") # {}) =>
        /\ resp.status = 200
        /\ resp.body.daily_sales = [d \in DatesPresent |-> TotalOf(OnDate(d), "purchaseAmount")]
        /\ resp.body.season_sales =
               [s \in SeasonsPresent |-> TotalOf(Named("season", s), "purchaseAmount")]

----------------------------------------------------------------------------
(* The category observations of the record set, as the claims describe them *)

\* the key/value entries of all categories lists, in record order
Shares ==
    Flatten([i \in DOMAIN Records |->
                IF Field(Records[i], "categories").k = "list"
                THEN SelectSeq(Field(Records[i], "categories").v, IsDict)
                ELSE <<>>])

HasName(c) == "category" \in DOMAIN c.v /\ c.v["category"].k = "str"

HasAmount(c) ==
    /\ "amount" \in DOMAIN c.v
    /\ \/ c.v["amount"].k = "num"
       \/ c.v["amount"].k = "txt" /\ IsDecimal(c.v["amount"].v)

\* an entry whose category is an explicit null: the claims do not say what
\* it counts for, and they are stated on record sets without one
NullNamed(c) == "category" \in DOMAIN c.v /\ c.v["category"].k = "null"

NoNullNames == \A i \in DOMAIN Shares : ~NullNamed(Shares[i])

WellFormed(c) == HasName(c) /\ HasAmount(c)

\* an entry without a category name is an observation of "Unknown"
ShareName(c) == IF HasName(c) THEN c.v["category"].v ELSE "Unknown"

\* an entry without a usable amount is an observation of amount 0
ShareAmount(c) ==
    IF ~HasAmount(c) THEN 0
    ELSE IF c.v["amount"].k = "num" THEN c.v["amount"].v
    ELSE DecimalValue(c.v["amount"].v)

ShareNames == {ShareName(Shares[i]) : i \in DOMAIN Shares}

SharesOf(n) == {i \in DOMAIN Shares : ShareName(Shares[i]) = n}

ShareSum(n) == SetSum(SharesOf(n), [i \in DOMAIN Shares |-> ShareAmount(Shares[i])])

\* some entry of some categories list is malformed: no key/value structure,
\* no category name, or no usable amount
HasMalformedEntry ==
    \/ \E i \in DOMAIN Records :
          /\ Field(Records[i], "categories").k = "list"
          /\ \E j \in DOMAIN Field(Records[i], "categories").v :
                ~IsDict(Field(Records[i], "categories").v[j])
    \/ \E i \in DOMAIN Shares : ~HasName(Shares[i]) \/ ~HasAmount(Shares[i])

\* C2: for every record set get_categories flattens every entry of every
\* record's categories list into one observation and returns, per category
\* name, distribution = the number of its observations, sales = the sum of
\* their amounts and average_purchase = their mean; repeated entries of one
\* category inside a record are each counted.
C2_CategoryBreakdown ==
    (/\ Answered("categories")
     /\ NoNullNames
     /\ \E i \in DOMAIN Shares : WellFormed(Shares[i])) =>
        /\ resp.status = 200
        /\ resp.body.distribution = [n \in ShareNames |-> Cardinality(SharesOf(n))]
        /\ resp.body.sales = [n \in ShareNames |-> ShareSum(n)]
        /\ DOMAIN resp.body.average_purchase = ShareNames
        /\ \A n \in ShareNames :
              SameMean(resp.body.average_purchase[n], Ratio(ShareSum(n), Cardinality(SharesOf(n))))

\* C7: for every non-empty record set in which no record yields a category
\* entry, get_categories returns empty distribution, sales and
\* average_purchase and get_category_sales_chart returns empty labels and
\* values, both as successful responses.
C7_NoEntriesGiveEmptyOutputs ==
    (resp.view \in {"categories", "category_sales"} /\ ~DfEmpty(Loaded) /\ Shares = <<>>) =>
        /\ resp.status = 200
        /\ resp.view = "categories" =>
              /\ resp.body.distribution = EmptyFcn
              /\ resp.body.sales = EmptyFcn
              /\ resp.body.average_purchase = EmptyFcn
        /\ resp.view = "category_sales" =>
              /\ resp.body.labels = <<>>
              /\ resp.body.values = <<>>

\* C8: a malformed entry never aborts the expansion: an entry that is no
\* key/value structure is skipped, one without a category name counts under
\* "Unknown", one whose amount is absent or not a number contributes 0, all
\* other entries are still aggregated and the view answers successfully.
C8_MalformedEntriesTolerated ==
    (/\ resp.view \in {"categories", "category_sales"}
     /\ ~DfEmpty(Loaded)
     /\ HasMalformedEntry
     /\ NoNullNames
     /\ Shares # <<>>) =>
        /\ resp.status = 200
        /\ resp.view = "categories" => resp.body.sales = [n \in ShareNames |-> ShareSum(n)]
        /\ resp.view = "category_sales" =>
              /\ {resp.body.labels[i] : i \in DOMAIN resp.body.labels} = ShareNames
              /\ \A i \in DOMAIN resp.body.labels :
                    resp.body.values[i] = ShareSum(resp.body.labels[i])

----------------------------------------------------------------------------
(* The category chart *)

ChartReturned == resp.view = "category_sales" /\ resp.status = 200

\* the position of the first entry that names the category
FirstSeen(n) == CHOOSE i \in SharesOf(n) : \A j \in SharesOf(n) : i <= j

Descending(values) == \A i, j \in DOMAIN values : i < j => values[i] >= values[j]

\* C9 as claimed: the chart holds the summed amounts in descending order and
\* two categories of equal sum appear in the order in which they were first
\* seen in the input records.
C9_TiesInFirstSeenOrder ==
    ChartReturned =>
        /\ Descending(resp.body.values)
        /\ \A i, j \in DOMAIN resp.body.labels :
              (i < j /\ resp.body.values[i] = resp.body.values[j])
                  => FirstSeen(resp.body.labels[i]) < FirstSeen(resp.body.labels[j])

\* the entries the chart groups: one whose category is null is in no group
Grouped == {i \in DOMAIN Shares : ~NullNamed(Shares[i])}

ChartNames == {ShareName(Shares[i]) : i \in Grouped}

ChartSum(n) == SetSum(SharesOf(n) \cap Grouped, [i \in DOMAIN Shares |-> ShareAmount(Shares[i])])

\* C9 as amended: labels and values are parallel, every category is listed
\* once with its summed amount, and the values are in descending order; the
\* order of categories of equal sum is not fixed.
C9_ChartSortedDescending ==
    ChartReturned =>
        /\ Len(resp.body.labels) = Len(resp.body.values)
        /\ {resp.body.labels[i] : i \in DOMAIN resp.body.labels} = ChartNames
        /\ Len(resp.body.labels) = Cardinality(ChartNames)
        /\ \A i \in DOMAIN resp.body.labels : resp.body.values[i] = ChartSum(resp.body.labels[i])
        /\ Descending(resp.body.values)

\* two categories of equal sum, listed against the order they were first seen
C9_TieOutOfInputOrder ==
    /\ ChartReturned
    /\ \E i, j \in DOMAIN resp.body.labels :
          /\ i < j
          /\ resp.body.values[i] = resp.body.values[j]
          /\ FirstSeen(resp.body.labels[i]) > FirstSeen(resp.body.labels[j])

----------------------------------------------------------------------------
(* The market filter *)

HexDigits == {"0", "1", "2", "3", "4", "5", "6", "7", "8", "9",
              "a", "b", "c", "d", "e", "f", "A", "B", "C", "D", "E", "F"}

\* the text of a valid identifier: 24 hexadecimal digits
ParsesAsIdentifier(cs) == Len(cs) = 24 /\ \A i \in DOMAIN cs : cs[i] \in HexDigits

InvalidFilterReported ==
    /\ LoadData(req) = [df |-> [rows |-> <<>>, cols |-> {}], error |-> "Invalid market ID format"]
    /\ resp.status = 404
    /\ resp.body = [error |-> "Invalid market ID format"]

\* C3 as claimed: whenever the supplied market_id does not parse as a valid
\* identifier, load_data returns an empty record set with the error
\* "Invalid market ID format" and the view answers with that error, never
\* with "No data found".
C3_MalformedFilterReported ==
    (resp.view # "none" /\ req.k = "txt" /\ ~ParsesAsIdentifier(req.v)) => InvalidFilterReported

\* C3 as amended: the same for a supplied market_id that is not empty; an
\* empty market_id is no filter.
C3_NonEmptyMalformedFilterReported ==
    (resp.view # "none" /\ req.k = "txt" /\ req.v # <<>> /\ ~ParsesAsIdentifier(req.v))
        => InvalidFilterReported

\* a malformed filter was reported although the collection holds documents
C3_MalformedFilterOnData ==
    /\ resp.view = "seasonal_sales"
    /\ req.k = "txt" /\ req.v # <<>> /\ ~ParsesAsIdentifier(req.v)
    /\ Len(db) > 0
    /\ resp.body = [error |-> "Invalid market ID format"]

----------------------------------------------------------------------------
(* The age bands *)

AgeLabels == {"<25", "25-34", "35-44", "45-54", "55+"}

\* the band of an age of [0, 100): closed on the left, open on the right
Band(a) ==
    IF a < 25 THEN "<25"
    ELSE IF a < 35 THEN "25-34"
    ELSE IF a < 45 THEN "35-44"
    ELSE IF a < 55 THEN "45-54"
    ELSE "55+"

AgeOf(i) == Field(Records[i], "customerAge").v

InRange(a) == 0 <= a /\ a < 100

HistogramReturned ==
    /\ resp.view = "demographics"
    /\ resp.status = 200
    /\ resp.body.age_stats # EmptyFcn

HistogramTotal == SetSum(AgeLabels, resp.body.age_stats.groups)

\* C5 as claimed: every age is put in exactly one of the five bands, so the
\* counts of the age-group histogram sum to the number of records whose
\* customerAge is not null (stated here for ages that are not negative).
C5_EveryAgeInOneBand ==
    (HistogramReturned /\ \A i \in Having("customerAge") : AgeOf(i) >= 0) =>
        /\ \A i \in Having("customerAge") : Cut(Records[i]["customerAge"]).k = "str"
        /\ HistogramTotal = Cardinality(Having("customerAge"))

\* C5 as amended: every age of [0, 100) is put in exactly one of the five
\* bands, closed on the left and open on the right at 25, 35, 45 and 55; an
\* age outside [0, 100) and a null age are in no band, so the counts of the
\* histogram sum to the number of records whose customerAge is in [0, 100).
C5_AgesInRangeInOneBand ==
    HistogramReturned =>
        /\ \A i \in Having("customerAge") :
              Cut(Records[i]["customerAge"]) = IF InRange(AgeOf(i)) THEN Str(Band(AgeOf(i))) ELSE NoneV
        /\ DOMAIN resp.body.age_stats.groups = AgeLabels
        /\ \A l \in AgeLabels :
              resp.body.age_stats.groups[l] =
                  Cardinality({i \in Having("customerAge") : InRange(AgeOf(i)) /\ Band(AgeOf(i)) = l})
        /\ HistogramTotal = Cardinality({i \in Having("customerAge") : InRange(AgeOf(i))})

\* a record of age 24 and a record without age: the histogram counts one
\* record, in "<25"
C5_NullAgeBesideAge24 ==
    /\ HistogramReturned
    /\ \E i \in DOMAIN Records : Field(Records[i], "customerAge") = Num(24)
    /\ \E i \in DOMAIN Records : IsNull(Field(Records[i], "customerAge"))
    /\ resp.body.age_stats.groups["<25"] = 1
    /\ HistogramTotal = 1

----------------------------------------------------------------------------
(* What the views return when they do answer: the content of C1, C2 and C4 *)
(* on the record sets that reach the end of the handler                    *)

StatsWhenAnswered ==
    (resp.view = "stats" /\ resp.status = 200) =>
        /\ resp.body.total_sales = TotalOf(DOMAIN Records, "purchaseAmount")
        /\ SameMean(resp.body.avg_purchase,
                    Ratio(TotalOf(DOMAIN Records, "purchaseAmount"),
                          Cardinality(Having("purchaseAmount"))))
        /\ resp.body.total_orders = Len(Records)
        /\ resp.body.unique_customers =
               Cardinality({Field(Records[i], "userId") : i \in Having("userId")})

BreakdownWhenAnswered ==
    (resp.view = "categories" /\ resp.status = 200 /\ NoNullNames) =>
        /\ resp.body.distribution = [n \in ShareNames |-> Cardinality(SharesOf(n))]
        /\ resp.body.sales = [n \in ShareNames |-> ShareSum(n)]

SeasonOrderWhenAnswered ==
    LET present(s) == Named("season", s) # {}
        expected == SelectSeq(<<"Winter", "Spring", "Summer", "Fall">>, present)
    IN  (resp.view = "seasonal_sales" /\ resp.status = 200) =>
            /\ resp.body.labels = [i \in DOMAIN expected |-> Str(expected[i])]
            /\ resp.body.values =
                   [i \in DOMAIN expected |-> TotalOf(Named("season", expected[i]), "purchaseAmount")]

====
